---- MODULE Spec2Model ----
(***************************************************************************)
(* Model of main.py: the /validate pipeline.  process_records selects the  *)
(* pending documents of the collection, runs validate_record on each one   *)
(* (one chat-completion call per record), sets each document's status to   *)
(* "completed" and finally calls send_email with the collected             *)
(* discrepancies.  None of the external calls is wrapped in try/except, so *)
(* an exception raised by any of them ends the request.                    *)
(***************************************************************************)
EXTENDS Integers, Sequences, FiniteSets, TLC

\* ------------------------------------------------------------------ bounds
\* Number of documents in the collection.
NumRecords == 2
\* Number of GET /validate requests served.
MaxRuns == 2

Ids == 1..NumRecords
Runs == 1..MaxRuns

\* ------------------------------------------------------- values of the code
\* Python's None; also the falsy value of `if discrepancy:`.
None == <<>>

\* A numeric field of a stored document: an integer, a value of another type,
\* or absent from the document (record[...] raises KeyError).
Num(n) == [kind |-> "int", val |-> n]
NonNumeric == [kind |-> "str", val |-> 0]
Missing == [kind |-> "missing", val |-> 0]

\* Documents the store may hold (the store enforces no schema).
Shapes ==
    { [tenant_name |-> "Acme", date |-> "2024-01-01",
       new_accounts |-> Num(10), account_points |-> Num(5),
       total_account_points |-> Num(50)],
      [tenant_name |-> "Acme", date |-> "2024-01-02",
       new_accounts |-> Num(10), account_points |-> Num(5),
       total_account_points |-> Num(60)],
      [tenant_name |-> "Globex", date |-> "2024-01-03",
       new_accounts |-> Num(3), account_points |-> Num(4),
       total_account_points |-> Missing],
      [tenant_name |-> "Initech", date |-> "2024-01-04",
       new_accounts |-> NonNumeric, account_points |-> Num(2),
       total_account_points |-> Num(8)] }

Statuses == {"pending", "completed"}

\* The fields validate_record reads with record[...] before the API call.
NumericFields == {"new_accounts", "account_points", "total_account_points"}

\* Texts the chat completion may return, and the call raising instead.
Replies == {"true", "false", "False"}
APIError == "APIError"
Outcomes == Replies \cup {APIError}

\* The rule stated in the prompt: total == new_accounts * account_points.
RuleHolds(record) ==
    /\ \A f \in NumericFields : record[f].kind = "int"
    /\ record.total_account_points.val
          = record.new_accounts.val * record.account_points.val

VARIABLES
    collection,        \* the store: id -> [doc, status]
    pc,                \* position of each request in process_records
    pending_records,   \* per request: the documents the cursor still yields
    selected,          \* per request: the ids the query returned
    record,            \* per request: the loop variable (0 before the loop)
    ai_decision,       \* per request: the last completion text
    discrepancy,       \* per request: the last result of validate_record
    all_discrepancies, \* per request: the accumulator
    flagged,           \* per request: the ids whose validation was appended
    failure,           \* per request: the exception that ended it ("" if none)
    completions,       \* per request, per id: chat-completion calls made
    updates,           \* per request, per id: update_one calls that succeeded
    sends,             \* per request: SMTP deliveries attempted
    mailbox,           \* the messages delivered, in order
    response           \* per request: the JSON returned (None until then)

vars == <<collection, pc, pending_records, selected, record, ai_decision,
          discrepancy, all_discrepancies, flagged, failure, completions,
          updates, sends, mailbox, response>>

\* ---------------------------------------------------------- pure functions

RECURSIVE in_id_order(_)
\* The cursor yields the matching documents in the order of their ids; which
\* document has which id is arbitrary (Init), so every order of documents
\* occurs.
in_id_order(S) ==
    IF S = {} THEN <<>>
    ELSE LET x == CHOOSE y \in S : \A z \in S : y <= z
         IN <<x>> \o in_id_order(S \ {x})

\* A query that forgets the status filter.
find_all(coll) == Ids

\* collection.find({"status": "pending"}): the ids of the matching documents.
find_pending(coll) == { id \in Ids : coll[id].status = "pending" }

\* validate_record checking the rule itself and asking the classifier only
\* when the rule fails.
validate_record_rule_first(rec, outcome) ==
    IF \E f \in NumericFields : rec[f].kind = "missing"
    THEN [called |-> FALSE, raised |-> "KeyError", result |-> None]
    ELSE IF RuleHolds(rec)
    THEN [called |-> FALSE, raised |-> "", result |-> None]
    ELSE IF outcome = APIError
    THEN [called |-> TRUE, raised |-> APIError, result |-> None]
    ELSE IF outcome = "false"
    THEN [called |-> TRUE, raised |-> "",
          result |-> <<rec.tenant_name, rec.date, "Validation failed">>]
    ELSE [called |-> TRUE, raised |-> "", result |-> None]

\* validate_record reporting the completion text as the reason.
validate_record_reply_as_reason(rec, outcome) ==
    IF \E f \in NumericFields : rec[f].kind = "missing"
    THEN [called |-> FALSE, raised |-> "KeyError", result |-> None]
    ELSE IF outcome = APIError
    THEN [called |-> TRUE, raised |-> APIError, result |-> None]
    ELSE IF outcome = "false"
    THEN [called |-> TRUE, raised |-> "",
          result |-> <<rec.tenant_name, rec.date, outcome>>]
    ELSE [called |-> TRUE, raised |-> "", result |-> None]

\* validate_record flagging every reply but "false" (comparison inverted).
validate_record_inverted(rec, outcome) ==
    IF \E f \in NumericFields : rec[f].kind = "missing"
    THEN [called |-> FALSE, raised |-> "KeyError", result |-> None]
    ELSE IF outcome = APIError
    THEN [called |-> TRUE, raised |-> APIError, result |-> None]
    ELSE IF outcome # "false"
    THEN [called |-> TRUE, raised |-> "",
          result |-> <<rec.tenant_name, rec.date, "Validation failed">>]
    ELSE [called |-> TRUE, raised |-> "", result |-> None]

\* validate_record comparing the reply without regard to case.
validate_record_any_case(rec, outcome) ==
    IF \E f \in NumericFields : rec[f].kind = "missing"
    THEN [called |-> FALSE, raised |-> "KeyError", result |-> None]
    ELSE IF outcome = APIError
    THEN [called |-> TRUE, raised |-> APIError, result |-> None]
    ELSE IF outcome \in {"false", "False"}
    THEN [called |-> TRUE, raised |-> "",
          result |-> <<rec.tenant_name, rec.date, "Validation failed">>]
    ELSE [called |-> TRUE, raised |-> "", result |-> None]

\* validate_record(record) with the classifier's outcome as an input:
\* whether the completion call was made, the exception raised ("" if none)
\* and the value returned.
validate_record(rec, outcome) ==
    IF \E f \in NumericFields : rec[f].kind = "missing"
    THEN [called |-> FALSE, raised |-> "KeyError", result |-> None]
    ELSE IF outcome = APIError
    THEN [called |-> TRUE, raised |-> APIError, result |-> None]
    ELSE IF outcome = "false"
    THEN [called |-> TRUE, raised |-> "",
          result |-> <<rec.tenant_name, rec.date, "Validation failed">>]
    ELSE [called |-> TRUE, raised |-> "", result |-> None]

\* The body line send_email writes for one discrepancy.
body_line(d) == [tenant |-> d[1], date |-> d[2], reason |-> d[3]]

\* send_email without the early return on an empty list.
send_email_unconditional(discrepancies) ==
    << [subject |-> "CSV Validation Alert: Discrepancies Found",
        lines |-> [i \in 1..Len(discrepancies) |->
                      body_line(discrepancies[i])]] >>

\* send_email writing the line of the first discrepancy only.
send_email_first_line(discrepancies) ==
    IF discrepancies = <<>> THEN <<>>
    ELSE << [subject |-> "CSV Validation Alert: Discrepancies Found",
             lines |-> << body_line(discrepancies[1]) >>] >>

\* send_email(discrepancies): the messages handed to the SMTP server.
send_email(discrepancies) ==
    IF discrepancies = <<>> THEN <<>>
    ELSE << [subject |-> "CSV Validation Alert: Discrepancies Found",
             lines |-> [i \in 1..Len(discrepancies) |->
                           body_line(discrepancies[i])]] >>

\* The status update_one writes.
completed_status == "completed"

\* ------------------------------------------------------------------- Init

Init ==
    /\ collection \in [Ids -> [doc : Shapes, status : Statuses]]
    /\ pc = [r \in Runs |-> "idle"]
    /\ pending_records = [r \in Runs |-> <<>>]
    /\ selected = [r \in Runs |-> {}]
    /\ record = [r \in Runs |-> 0]
    /\ ai_decision = [r \in Runs |-> ""]
    /\ discrepancy = [r \in Runs |-> None]
    /\ all_discrepancies = [r \in Runs |-> <<>>]
    /\ flagged = [r \in Runs |-> {}]
    /\ failure = [r \in Runs |-> ""]
    /\ completions = [r \in Runs |-> [id \in Ids |-> 0]]
    /\ updates = [r \in Runs |-> [id \in Ids |-> 0]]
    /\ sends = [r \in Runs |-> 0]
    /\ mailbox = <<>>
    /\ response = [r \in Runs |-> None]

\* ---------------------------------------------------------------- actions

Ended(run) == pc[run] \in {"done", "failed"}

\* Line 112 and the first fetch of line 115: the query succeeds.
Find(run) ==
    /\ pc[run] = "idle"
    /\ pending_records' =
          [pending_records EXCEPT ![run] = in_id_order(find_pending(collection))]
    /\ selected' = [selected EXCEPT ![run] = find_pending(collection)]
    /\ pc' = [pc EXCEPT ![run] = "loop"]
    /\ UNCHANGED <<collection, record, ai_decision, discrepancy,
                   all_discrepancies, flagged, failure, completions, updates, sends,
                   mailbox, response>>

\* A query failure that is swallowed: the run goes on as if nothing matched.
FindFail_swallowed(run) ==
    /\ pc[run] = "idle"
    /\ pc' = [pc EXCEPT ![run] = "loop"]
    /\ failure' = [failure EXCEPT ![run] = "QueryError"]
    /\ UNCHANGED <<collection, pending_records, selected, record, ai_decision,
                   discrepancy, all_discrepancies, flagged, completions,
                   updates, sends, mailbox, response>>

\* The query raises: the exception leaves process_records.
FindFail(run) ==
    /\ pc[run] = "idle"
    /\ pc' = [pc EXCEPT ![run] = "failed"]
    /\ failure' = [failure EXCEPT ![run] = "QueryError"]
    /\ UNCHANGED <<collection, pending_records, selected, record, ai_decision,
                   discrepancy, all_discrepancies, flagged, completions, updates, sends,
                   mailbox, response>>

\* Lines 115-118: the next document, validate_record, the append.
Validate(run) ==
    /\ pc[run] = "loop"
    /\ pending_records[run] # <<>>
    /\ LET id == Head(pending_records[run]) IN
       \E outcome \in Outcomes :
          LET v == validate_record(collection[id].doc, outcome) IN
          /\ record' = [record EXCEPT ![run] = id]
          /\ pending_records' =
                [pending_records EXCEPT ![run] = Tail(pending_records[run])]
          /\ completions' =
                [completions EXCEPT ![run][id] = @ + (IF v.called THEN 1 ELSE 0)]
          /\ IF v.raised # ""
             THEN /\ pc' = [pc EXCEPT ![run] = "failed"]
                  /\ failure' = [failure EXCEPT ![run] = v.raised]
                  /\ UNCHANGED <<ai_decision, discrepancy, all_discrepancies,
                                 flagged>>
             ELSE /\ ai_decision' = [ai_decision EXCEPT ![run] = outcome]
                  /\ discrepancy' = [discrepancy EXCEPT ![run] = v.result]
                  /\ all_discrepancies' =
                        [all_discrepancies EXCEPT ![run] =
                            IF v.result # None THEN Append(@, v.result) ELSE @]
                  /\ flagged' =
                        [flagged EXCEPT ![run] =
                            IF v.result # None THEN @ \cup {id} ELSE @]
                  /\ pc' = [pc EXCEPT ![run] = "update"]
                  /\ UNCHANGED failure
    /\ UNCHANGED <<collection, selected, updates, sends, mailbox, response>>

\* An update that flips the status instead of setting it: a second update
\* of the same record puts it back to "pending".
Update_toggle(run) ==
    /\ pc[run] = "update"
    /\ collection' =
          [collection EXCEPT ![record[run]].status =
              IF @ = "pending" THEN completed_status ELSE "pending"]
    /\ updates' = [updates EXCEPT ![run][record[run]] = @ + 1]
    /\ pc' = [pc EXCEPT ![run] = "loop"]
    /\ UNCHANGED <<pending_records, selected, record, ai_decision, discrepancy,
                   all_discrepancies, flagged, failure, completions, sends,
                   mailbox, response>>

\* Line 121: update_one succeeds.
Update(run) ==
    /\ pc[run] = "update"
    /\ collection' =
          [collection EXCEPT ![record[run]].status = completed_status]
    /\ updates' = [updates EXCEPT ![run][record[run]] = @ + 1]
    /\ pc' = [pc EXCEPT ![run] = "loop"]
    /\ UNCHANGED <<pending_records, selected, record, ai_decision, discrepancy,
                   all_discrepancies, flagged, failure, completions, sends, mailbox,
                   response>>

\* Line 121: update_one raises.
UpdateFail(run) ==
    /\ pc[run] = "update"
    /\ pc' = [pc EXCEPT ![run] = "failed"]
    /\ failure' = [failure EXCEPT ![run] = "UpdateError"]
    /\ UNCHANGED <<collection, pending_records, selected, record, ai_decision,
                   discrepancy, all_discrepancies, flagged, completions, updates, sends,
                   mailbox, response>>

\* Lines 124-126: send_email delivers (or has nothing to send), then return.
SendEmail(run) ==
    /\ pc[run] = "loop"
    /\ pending_records[run] = <<>>
    /\ LET out == send_email(all_discrepancies[run]) IN
       /\ mailbox' = mailbox \o out
       /\ sends' = [sends EXCEPT ![run] = @ + Len(out)]
    /\ response' = [response EXCEPT ![run] =
          << [message |-> "Validation completed",
              errors_found |-> Len(all_discrepancies[run])] >>]
    /\ pc' = [pc EXCEPT ![run] = "done"]
    /\ UNCHANGED <<collection, pending_records, selected, record, ai_decision,
                   discrepancy, all_discrepancies, flagged, failure, completions,
                   updates>>

\* An SMTP failure that undoes the run's status updates.
SendEmailFail_rollback(run) ==
    /\ pc[run] = "loop"
    /\ pending_records[run] = <<>>
    /\ send_email(all_discrepancies[run]) # <<>>
    /\ collection' =
          [id \in Ids |->
              IF id \in selected[run]
              THEN [collection[id] EXCEPT !.status = "pending"]
              ELSE collection[id]]
    /\ sends' = [sends EXCEPT ![run] = @ + 1]
    /\ pc' = [pc EXCEPT ![run] = "failed"]
    /\ failure' = [failure EXCEPT ![run] = "SMTPError"]
    /\ UNCHANGED <<pending_records, selected, record, ai_decision,
                   discrepancy, all_discrepancies, flagged, completions,
                   updates, mailbox, response>>

\* Lines 102-105: the SMTP session raises.
SendEmailFail(run) ==
    /\ pc[run] = "loop"
    /\ pending_records[run] = <<>>
    /\ send_email(all_discrepancies[run]) # <<>>
    /\ sends' = [sends EXCEPT ![run] = @ + 1]
    /\ pc' = [pc EXCEPT ![run] = "failed"]
    /\ failure' = [failure EXCEPT ![run] = "SMTPError"]
    /\ UNCHANGED <<collection, pending_records, selected, record, ai_decision,
                   discrepancy, all_discrepancies, flagged, completions, updates,
                   mailbox, response>>

\* Requests are numbered in the order they reach the endpoint.
\* The previous request has returned (or raised) before this one arrives.
AfterPrevious(run) == IF run = 1 THEN TRUE ELSE Ended(run - 1)
\* Two requests at a time may be in flight: an even-numbered request may
\* arrive while its predecessor is still running, an odd-numbered one
\* arrives once all earlier requests have returned (or raised).
Arrived(run) ==
    IF run = 1 THEN TRUE
    ELSE IF run % 2 = 0 THEN pc[run - 1] # "idle"
    ELSE \A earlier \in 1..(run - 1) : Ended(earlier)

Step(run) ==
    \/ Validate(run)
    \/ Update(run)
    \/ UpdateFail(run)
    \/ SendEmail(run)
    \/ SendEmailFail(run)

\* Requests are served one after another.
Next ==
    \E run \in Runs :
        \/ AfterPrevious(run) /\ Find(run)
        \/ AfterPrevious(run) /\ FindFail(run)
        \/ Step(run)

\* Requests may overlap in pairs (the endpoint does not coordinate them).
NextOverlap ==
    \E run \in Runs :
        \/ Arrived(run) /\ Find(run)
        \/ Arrived(run) /\ FindFail(run)
        \/ Step(run)

Spec == Init /\ [][Next]_vars
SpecOverlap == Init /\ [][NextOverlap]_vars

\* ------------------------------------------------------------- properties

\* The exceptions validate_record lets through.
ValidatorErrors == {"KeyError", APIError}
\* The exceptions of the store's query and update calls.
StoreErrors == {"QueryError", "UpdateError"}

\* The document a request is handling.
Current(run) == collection[record[run]].doc

RECURSIVE Total(_, _, _)
\* The calls all requests 1..n made for one id.
Total(calls, id, n) ==
    IF n = 0 THEN 0 ELSE calls[n][id] + Total(calls, id, n - 1)

\* C1: once a run has ended, whatever the outcome of the validations
\* (a classifier failure included), every record it selected as pending is
\* completed.
C1_AllSelectedCompleted ==
    \A run \in Runs :
        (Ended(run) /\ failure[run] \in {""} \cup ValidatorErrors)
            => \A id \in selected[run] : collection[id].status = "completed"

\* C2: a run in which validate_record raised on a record still marks that
\* record completed, and still classifies and marks every record it selected.
C2_ValidatorFailureDoesNotAbort ==
    \A run \in Runs :
        (Ended(run) /\ failure[run] \in ValidatorErrors)
            => /\ updates[run][record[run]] = 1
               /\ pending_records[run] = <<>>
               /\ \A id \in selected[run] : updates[run][id] = 1

\* C3: a run delivers mail at most once; a run that returns has delivered
\* exactly once if its accumulator is non-empty and not at all if it is
\* empty; mail is never delivered before every selected record has been
\* validated and updated.
C3_NotifyOncePerRun ==
    \A run \in Runs :
        /\ sends[run] <= 1
        /\ pc[run] = "done"
              => sends[run] = (IF all_discrepancies[run] # <<>> THEN 1 ELSE 0)
        /\ sends[run] > 0
              => /\ all_discrepancies[run] # <<>>
                 /\ pending_records[run] = <<>>
                 /\ pc[run] \in {"done", "failed"}
                 /\ \A id \in selected[run] : updates[run][id] = 1

C3_Witness ==
    \E run \in Runs :
        /\ pc[run] = "done"
        /\ selected[run] # {}
        /\ all_discrepancies[run] # <<>>
        /\ sends[run] = 1
        /\ Len(mailbox) >= 1

\* C4: a run served right after another one (whose store calls all
\* succeeded) selects no record, makes no classification call, accumulates
\* nothing and sends nothing.
C4_SecondRunEmpty ==
    \A run \in Runs \ {1} :
        (pc[run] # "idle" /\ failure[run - 1] \notin StoreErrors)
            => /\ selected[run] = {}
               /\ \A id \in Ids : completions[run][id] = 0
               /\ all_discrepancies[run] = <<>>
               /\ sends[run] = 0
               /\ (pc[run] = "done" => response[run][1].errors_found = 0)

\* C5: over any sequence of runs, a completed record stays completed; a
\* query selects only records that are pending when it runs; a run
\* classifies and updates only records it selected.
C5_StatusMonotone ==
    [][ /\ \A id \in Ids :
              collection[id].status = "completed"
                  => collection'[id].status = "completed"
        /\ \A run \in Runs :
              (pc[run] = "idle" /\ pc'[run] = "loop")
                  => \A id \in selected'[run] :
                        collection[id].status = "pending"
        /\ \A run \in Runs : \A id \in Ids :
              (completions'[run][id] > completions[run][id]
                  \/ updates'[run][id] > updates[run][id])
                  => id \in selected[run] ]_vars

C5_Witness ==
    \E run \in Runs \ {1} : \E id \in Ids :
        /\ pc[run] \in {"loop", "update", "done"}
        /\ updates[1][id] = 1
        /\ collection[id].status = "completed"
        /\ id \notin selected[run]

\* C6: over runs served one after another, no record is classified more
\* than once and no record is marked completed more than once.
C6_ProcessedOnce ==
    \A id \in Ids :
        /\ Total(completions, id, MaxRuns) <= 1
        /\ Total(updates, id, MaxRuns) <= 1

\* C7: a record that satisfies the rule is returned as consistent without
\* a classification call.
C7_ConsistentWithoutCall ==
    \A run \in Runs :
        (pc[run] = "update" /\ RuleHolds(Current(run)))
            => /\ completions[run][record[run]] = 0
               /\ discrepancy[run] = None

\* C7 as amended: a record that satisfies the rule is classified once like
\* any other, and is returned as consistent exactly when the reply is not
\* "false".
C7_ConsistentStillClassified ==
    \A run \in Runs :
        (pc[run] = "update" /\ RuleHolds(Current(run)))
            => /\ completions[run][record[run]] = 1
               /\ (discrepancy[run] = None <=> ai_decision[run] # "false")

C7_Witness ==
    \E run \in Runs :
        /\ pc[run] = "update"
        /\ RuleHolds(Current(run))
        /\ completions[run][record[run]] = 1
        /\ ai_decision[run] = "false"
        /\ discrepancy[run] # None

\* C8: for a record that breaks the rule and a reply of exactly "false",
\* validate_record returns (tenant_name, date, "Validation failed") with the
\* record's own tenant_name and date.
C8_FalseGivesDiscrepancy ==
    \A run \in Runs :
        (pc[run] = "update" /\ ~RuleHolds(Current(run))
            /\ ai_decision[run] = "false")
            => /\ discrepancy[run] = <<Current(run).tenant_name,
                                       Current(run).date,
                                       "Validation failed">>
               /\ all_discrepancies[run] # <<>>
               /\ all_discrepancies[run][Len(all_discrepancies[run])]
                     = discrepancy[run]

C8_Witness ==
    \E run \in Runs :
        /\ pc[run] = "update"
        /\ ~RuleHolds(Current(run))
        /\ ai_decision[run] = "false"
        /\ discrepancy[run][3] = "Validation failed"

\* C9: a reply of exactly "true" makes validate_record return None, and the
\* accumulator is left as it was.
C9_TrueGivesConsistent ==
    [][ \A run \in Runs :
            (pc[run] = "loop" /\ pc'[run] = "update"
                /\ ai_decision'[run] = "true")
                => /\ discrepancy'[run] = None
                   /\ all_discrepancies'[run] = all_discrepancies[run] ]_vars

C9_Witness ==
    \E run \in Runs :
        /\ pc[run] = "update"
        /\ ai_decision[run] = "true"
        /\ completions[run][record[run]] = 1
        /\ discrepancy[run] = None

\* C10: a reply that is neither "true" nor "false" is not returned as
\* consistent: the record gets an outcome of its own.
C10_UnrecognizedNotConsistent ==
    \A run \in Runs :
        (pc[run] = "update" /\ ai_decision[run] \notin {"true", "false"})
            => discrepancy[run] # None

\* The ids a run classified and has not (yet) updated.
InProgress(run) ==
    { id \in Ids : completions[run][id] > updates[run][id] }

\* C11: a run marks a record completed only after that record's own
\* classification call has returned and its result has been collected;
\* records are handled one at a time, so at most one record of a run is
\* classified and not yet updated, and it is the loop's current record.
C11_UpdateAfterClassification ==
    \A run \in Runs :
        /\ \A id \in Ids :
              /\ updates[run][id] <= completions[run][id]
              /\ completions[run][id] <= 1
        /\ Cardinality(InProgress(run)) <= 1
        /\ InProgress(run) \subseteq {record[run]}
        /\ pc[run] = "update"
              => /\ InProgress(run) = {record[run]}
                 /\ (discrepancy[run] # None
                        <=> record[run] \in flagged[run])
                 /\ (discrepancy[run] # None
                        => all_discrepancies[run][Len(all_discrepancies[run])]
                              = discrepancy[run])

C11_Witness ==
    \E run \in Runs : \E id \in Ids :
        /\ pc[run] = "update"
        /\ updates[run][id] = 1
        /\ completions[run][id] = 1
        /\ id # record[run]
        /\ completions[run][record[run]] = 1
        /\ updates[run][record[run]] = 0

\* The line send_email writes for a flagged record.
LineOf(id) ==
    [tenant |-> collection[id].doc.tenant_name,
     date |-> collection[id].doc.date,
     reason |-> "Validation failed"]

\* C12: when a run returns, errors_found is the number of records of the run
\* whose validation produced a discrepancy, and the message delivered (if
\* any) has exactly one line per such record.
C12_CountAndLines ==
    [][ \A run \in Runs :
            (pc[run] = "loop" /\ pc'[run] = "done")
                => LET ids == in_id_order(flagged[run])
                       n == Cardinality(flagged[run])
                   IN /\ response'[run][1].errors_found = n
                      /\ IF n = 0
                         THEN mailbox' = mailbox
                         ELSE /\ Len(mailbox') = Len(mailbox) + 1
                              /\ LET msg == mailbox'[Len(mailbox')] IN
                                 /\ Len(msg.lines) = n
                                 /\ \A i \in 1..n :
                                       msg.lines[i] = LineOf(ids[i]) ]_vars

C12_Witness ==
    \E run \in Runs : \E good, bad \in selected[run] :
        /\ pc[run] = "done"
        /\ RuleHolds(collection[good].doc)
        /\ ~RuleHolds(collection[bad].doc)
        /\ flagged[run] = {bad}
        /\ response[run][1].errors_found = 1
        /\ Len(mailbox) >= 1
        /\ Len(mailbox[Len(mailbox)].lines) = 1

\* The message a run delivered mentions the record.
Mentions(msg, id) == \E i \in 1..Len(msg.lines) : msg.lines[i] = LineOf(id)

\* C13: with overlapping runs, status updates are idempotent: a record that
\* any run has updated is completed, however many runs updated it, and a
\* record that two runs both selected is classified and updated once by
\* each run that returns and ends completed.
C13_DuplicateUpdatesIdempotent ==
    \A id \in Ids :
        /\ (\E run \in Runs : updates[run][id] >= 1)
              => collection[id].status = "completed"
        /\ \A r1, r2 \in Runs :
              (r1 # r2 /\ id \in selected[r1] \cap selected[r2]
                  /\ pc[r1] = "done" /\ pc[r2] = "done")
                  => /\ completions[r1][id] = 1 /\ completions[r2][id] = 1
                     /\ updates[r1][id] = 1 /\ updates[r2][id] = 1
                     /\ collection[id].status = "completed"

\* Both runs selected the same pending record before either updated it; it
\* was classified twice, updated twice and reported in two messages.
C13_Witness ==
    \E id \in Ids : \E r1, r2 \in Runs :
        /\ r1 # r2
        /\ id \in selected[r1] \cap selected[r2]
        /\ id \in flagged[r1] \cap flagged[r2]
        /\ completions[r1][id] = 1 /\ completions[r2][id] = 1
        /\ updates[r1][id] = 1 /\ updates[r2][id] = 1
        /\ pc[r1] = "done" /\ pc[r2] = "done"
        /\ sends[r1] = 1 /\ sends[r2] = 1
        /\ Len(mailbox) = 2
        /\ Mentions(mailbox[1], id) /\ Mentions(mailbox[2], id)
        /\ collection[id].status = "completed"

\* C14: a run whose mail delivery failed has raised to its caller (no JSON
\* response) and every record it selected and marked is still completed.
C14_NotifyFailureKeepsUpdates ==
    \A run \in Runs :
        failure[run] = "SMTPError"
            => /\ pc[run] = "failed"
               /\ response[run] = None
               /\ sends[run] = 1
               /\ \A id \in selected[run] :
                     /\ updates[run][id] = 1
                     /\ collection[id].status = "completed"

C14_Witness ==
    \E run \in Runs :
        /\ failure[run] = "SMTPError"
        /\ pc[run] = "failed"
        /\ Cardinality(selected[run]) >= 2
        /\ \A id \in selected[run] : collection[id].status = "completed"

\* C15: a failed status update of one record does not end the run: every
\* other record the run selected is still validated and marked completed,
\* and the run returns.
C15_UpdateFailureDoesNotAbort ==
    \A run \in Runs :
        failure[run] = "UpdateError"
            => /\ pending_records[run] = <<>>
               /\ \A id \in selected[run] \ {record[run]} :
                     /\ completions[run][id] = 1
                     /\ updates[run][id] = 1

\* C16: a run whose query failed has raised to its caller and has made no
\* classification call, no status update and no mail delivery.
C16_QueryFailureIsFatal ==
    \A run \in Runs :
        failure[run] = "QueryError"
            => /\ pc[run] = "failed"
               /\ response[run] = None
               /\ selected[run] = {}
               /\ flagged[run] = {}
               /\ all_discrepancies[run] = <<>>
               /\ sends[run] = 0
               /\ \A id \in Ids :
                     completions[run][id] = 0 /\ updates[run][id] = 0

C16_Witness ==
    \E run \in Runs :
        /\ failure[run] = "QueryError"
        /\ pc[run] = "failed"
        /\ find_pending(collection) # {}
        /\ mailbox = <<>>

\* A numeric field of the document is missing or not a number.
Malformed(doc) == \E f \in NumericFields : doc[f].kind # "int"

\* C17: a run that has taken a malformed record from the cursor has raised
\* a malformed-record error without calling the classifier for it.
C17_MalformedRaisesBeforeCall ==
    \A run \in Runs :
        (record[run] # 0 /\ Malformed(Current(run)))
            => /\ completions[run][record[run]] = 0
               /\ pc[run] = "failed"
               /\ failure[run] = "KeyError"

\* The ids the cursor of a run has not yielded yet.
Remaining(run) ==
    { pending_records[run][i] : i \in 1..Len(pending_records[run]) }

\* The records a run handled before its current one.
HandledBefore(run) == selected[run] \ ({record[run]} \cup Remaining(run))

\* C18: a run in which the classification call raised has stopped there:
\* it returns no response and sends no mail; the records handled before are
\* completed and no later run selects (or reports) them; the record being
\* validated and the ones after it were not updated by this run and stay
\* pending until a later run updates them.
C18_ClassifierFailureStopsRun ==
    \A run \in Runs :
        failure[run] = APIError
            => /\ pc[run] = "failed"
               /\ response[run] = None
               /\ sends[run] = 0
               /\ \A id \in HandledBefore(run) :
                     /\ updates[run][id] = 1
                     /\ collection[id].status = "completed"
                     /\ \A later \in Runs :
                           later > run
                               => /\ id \notin selected[later]
                                  /\ id \notin flagged[later]
               /\ \A id \in {record[run]} \cup Remaining(run) :
                     /\ updates[run][id] = 0
                     /\ (collection[id].status = "pending"
                            <=> \A later \in Runs : updates[later][id] = 0)

\* A discrepancy accumulated before the failure is lost: the next run has
\* returned without selecting the record.
C18_Witness ==
    \E run \in Runs : \E id \in Ids :
        /\ run + 1 \in Runs
        /\ failure[run] = APIError
        /\ id \in flagged[run]
        /\ id \in HandledBefore(run)
        /\ sends[run] = 0
        /\ pc[run + 1] = "done"
        /\ id \notin selected[run + 1]
        /\ record[run] \in selected[run + 1]

\* C19: a run that returns has made exactly one classification call and
\* one status update for each record it selected (and none for any other),
\* whether or not the record satisfies the rule; a validation appends a
\* discrepancy exactly when the reply is the string "false".
C19_OneCallOneUpdate ==
    [][ \A run \in Runs :
            /\ pc'[run] = "done"
                  => \A id \in Ids :
                        LET n == IF id \in selected'[run] THEN 1 ELSE 0
                        IN /\ completions'[run][id] = n
                           /\ updates'[run][id] = n
            /\ (pc[run] = "loop" /\ pc'[run] = "update")
                  => LET hit == ai_decision'[run] = "false" IN
                     /\ Len(all_discrepancies'[run])
                           = Len(all_discrepancies[run])
                                + (IF hit THEN 1 ELSE 0)
                     /\ record'[run] \in flagged'[run] <=> hit
                     /\ discrepancy'[run] # None <=> hit ]_vars

C19_Witness ==
    \E run \in Runs : \E good, bad \in selected[run] :
        /\ pc[run] = "done"
        /\ RuleHolds(collection[good].doc)
        /\ ~RuleHolds(collection[bad].doc)
        /\ flagged[run] = {good}
        /\ \A id \in {good, bad} :
              completions[run][id] = 1 /\ updates[run][id] = 1
====
